---- MODULE Spec2Model ----
(***************************************************************************)
(* Curio: the dialogue engine (agents/conversational.ts), its caller       *)
(* (ChatInterface / ChatInput), the lesson-plan pipeline                   *)
(* (agents/lessonPlanner.ts as bundled in services/database.ts), the main  *)
(* process handlers that run and delete (main.ts) and the pipeline's       *)
(* caller (ContentPane).                                                   *)
(*                                                                         *)
(* Strings the code parses are modelled as sequences of tokens: a tag      *)
(* ("IDENTIFIED:"), a space, a bar, a word.  Optional fields are sequences *)
(* of length at most one: <<>> is "absent", <<v>> is "present with v".     *)
(***************************************************************************)
EXTENDS Integers, Sequences, FiniteSets, TLC

\* ------------------------------------------------------------------ bounds
MaxTurns == 5
MaxSessionTurns == 3
MaxChatTurns == 3
MaxCalls == 2
MaxPaneEvents == 5
MaxRetryAttempts == 3
MaxCompletions == 2
MaxProcess == 2
MaxDetailEvents == 4

VARIABLES
    conversationStates,  \* Map<string, ConversationState>
    apiKey,              \* SimpleAPIKeyManager.apiKey (the cached key)
    envKey,              \* what the main process answers to getOpenAIKey
    inflight,            \* sendAgentMessage invocations suspended on model.invoke
    lastTurn,            \* the invocation that settled last
    solo,                \* per session: the map it would have were it alone
    nTurns,              \* invocations started so far
    isTyping,            \* ChatInterface state
    nMessages,           \* length of ChatInterface's messages list
    learningRequests,    \* the learning-request documents, by _id
    lessonPlans,         \* the lesson-plan documents, by _id
    createdPlans,        \* _ids of the lesson plans created so far
    clock,               \* Date.now() of the next lesson plan
    runs,                \* 'invoke-lesson-planner' invocations under way
    lastRun,             \* the invocation that returned last
    dels,                \* 'db:deleteLearningRequest' invocations under way
    lastDel,             \* the deletion that settled last
    nRuns,               \* pipeline invocations started so far
    nDels,               \* deletions started so far
    selectedTopicId,     \* ContentPane's selectedTopicId prop
    lessonPlan,          \* ContentPane's lessonPlan state (the plan's _id)
    loading,             \* ContentPane's loading state
    generating,          \* ContentPane's generating state
    paneError,           \* ContentPane's error state
    loads,               \* loadLessonPlan calls under way
    gens,                \* handleGenerateLessonPlan calls under way
    nPaneEvents,         \* user events on the pane so far
    retryAttempts,       \* OpenAIService.retryAttempts
    serviceInitialized,  \* OpenAIService.isInitialized
    completions,         \* chatCompletion calls under way
    lastCompletion,      \* the chatCompletion call that settled last
    nCompletions,        \* chatCompletion calls started so far
    agentInitialized,    \* BaseAgentImpl.isInitialized
    processes,           \* BaseAgentImpl.process calls under way
    lastOutput,          \* the process call that settled last
    nProcess,            \* process calls started so far
    shownResources,      \* the resources of the lesson-plan view's lessonPlan state
    toastVisible,        \* the lesson-plan view's toastVisible state
    deletedResource,     \* its deletedResource state
    deletingResourceIndex, \* its deletingResourceIndex state
    edits,               \* handleDeleteResource / handleUndoDelete calls under way
    lastRemoval,         \* the removal that was written last, and the list before it
    nDetailEvents        \* clicks on the lesson-plan view so far

engineVars == <<conversationStates, apiKey, envKey, inflight, lastTurn, solo, nTurns>>
chatVars == <<isTyping, nMessages>>
storeVars == <<learningRequests, lessonPlans, createdPlans, clock>>
mainVars == <<runs, lastRun, dels, lastDel, nRuns, nDels>>
paneVars ==
    <<selectedTopicId, lessonPlan, loading, generating, paneError, loads, gens,
      nPaneEvents>>
serviceVars ==
    <<retryAttempts, serviceInitialized, completions, lastCompletion, nCompletions>>
agentVars == <<agentInitialized, processes, lastOutput, nProcess>>
detailVars ==
    <<shownResources, toastVisible, deletedResource, deletingResourceIndex, edits,
      lastRemoval, nDetailEvents>>
restVars == <<serviceVars, agentVars, detailVars>>
vars == <<engineVars, chatVars, storeVars, mainVars, paneVars, restVars>>

None == <<>>
Some(v) == <<v>>
StateOf(map, key) == IF key \in DOMAIN map THEN Some(map[key]) ELSE None

\* ------------------------------------------------------------ token strings
SP == " "
BAR == "|"
Sep == <<SP, BAR, SP>>

RECURSIVE TrimLeft(_)
TrimLeft(s) == IF s # <<>> /\ Head(s) = SP THEN TrimLeft(Tail(s)) ELSE s

RECURSIVE TrimRight(_)
TrimRight(s) ==
    IF s # <<>> /\ s[Len(s)] = SP THEN TrimRight(SubSeq(s, 1, Len(s) - 1)) ELSE s

\* String.prototype.trim
Trim(s) == TrimRight(TrimLeft(s))

\* String.prototype.startsWith(tag)
StartsWith(s, tag) == s # <<>> /\ Head(s) = tag

\* String.prototype.replace(tag, ''): the first occurrence only
RECURSIVE RemoveFirst(_, _)
RemoveFirst(s, tag) ==
    IF s = <<>> THEN <<>>
    ELSE IF Head(s) = tag THEN Tail(s)
    ELSE <<Head(s)>> \o RemoveFirst(Tail(s), tag)

\* String.prototype.split(' | ')
RECURSIVE Split(_)
Split(s) ==
    LET hits == {i \in 1..(Len(s) - 2) : SubSeq(s, i, i + 2) = Sep}
    IN  IF hits = {} THEN <<s>>
        ELSE LET i == CHOOSE k \in hits : \A j \in hits : k <= j
             IN  <<SubSeq(s, 1, i - 1)>> \o Split(SubSeq(s, i + 3, Len(s)))

\* content.replace(tag, '').trim().split(' | ')
Parts(content, tag) == Split(Trim(RemoveFirst(content, tag)))

\* parts[0]?.trim()
Part0(parts) == Trim(parts[1])

\* parts[1]?.trim() with nothing to stand in for an absent part
Part1OrNothing(parts, dflt) == IF Len(parts) >= 2 THEN Trim(parts[2]) ELSE <<>>

\* parts[1]?.trim() || dflt
Part1Or(parts, dflt) ==
    IF Len(parts) >= 2 /\ Trim(parts[2]) # <<>> THEN Trim(parts[2]) ELSE dflt

General == <<"General">>
MultipleCategories == <<"multiple categories">>

\* ------------------------------------------------------- conversation state
Steps == {"initial", "identifying", "clarifying", "confirmed", "learning_preference"}
Preferences == {<<"basics">>, <<"getting_started">>, <<"core_concepts">>}

InitialState ==
    [step |-> "initial",
     subject_candidate |-> None,
     subject |-> None,
     category |-> None,
     learning_preference |-> None,
     needs_clarification |-> FALSE,
     clarification_context |-> None]

\* const session = sessionId || 'default'
SessionKeyShared(sessionId) == "default"
SessionKey(sessionId) == IF sessionId = "" THEN "default" ELSE sessionId

\* getConversationState: the map after the lazy initialisation
getConversationState(map, session) ==
    IF session \in DOMAIN map THEN map ELSE (session :> InitialState) @@ map

\* { ...currentState, ...updates }
Merge(cur, updates) ==
    [f \in DOMAIN cur |-> IF f \in DOMAIN updates THEN updates[f] ELSE cur[f]]

updateConversationState(map, session, updates) ==
    LET m == getConversationState(map, session)
    IN  (session :> Merge(m[session], updates)) @@ m

\* ------------------------------------------------------------- credentials
Keys == {"k1", "k2"}

\* SimpleAPIKeyManager.getAPIKey: [key handed out, cache afterwards]
getAPIKey(cache, env) ==
    IF cache # None THEN [key |-> cache, cache |-> cache]
    ELSE [key |-> env, cache |-> env]

\* ------------------------------------------------------- language model
\* The texts the model may answer with.
Contents ==
    { <<"IDENTIFIED:", SP, "Python", SP, BAR, SP, "PL">>,
      <<"IDENTIFIED:", SP, "Python">>,
      <<"IDENTIFIED:">>,
      <<"IDENTIFIED:", SP, BAR, SP, "PL">>,
      <<SP, "IDENTIFIED:", SP, "Python">>,
      <<"CLARIFY:", SP, "Swift", SP, BAR, SP, "PL">>,
      <<"CLARIFY:", SP, "Swift">>,
      <<"CLARIFY:", SP, "Swift", SP, BAR, SP, SP, BAR, SP, "PL">>,
      <<"CLARIFY:", SP>>,
      <<"UNCLEAR">>,
      <<"RESOLVED:", SP, "Swift", SP, BAR, SP, "Bird">>,
      <<"RESOLVED:", SP, "Kotlin">>,
      <<"RESOLVED:", SP, BAR, SP, "Bird">>,
      <<"RESOLVED:">>,
      <<"PREFERENCE:", SP, "basics">>,
      <<"PREFERENCE:", SP, "core_concepts">>,
      <<"PREFERENCE:", SP, "advanced">>,
      <<"PREFERENCE:">> }

Messages == {"m1", "m2"}
SessionIds == {"", "chat-session"}

\* preferenceLabels[preference]
preferenceLabels(p) ==
    IF p = <<"basics">> THEN <<"just the basics">>
    ELSE IF p = <<"getting_started">> THEN <<"how to get started quickly">>
    ELSE IF p = <<"core_concepts">> THEN <<"core concepts">>
    ELSE <<"undefined">>

AskText == <<"What do you want to learn about?">>

\* --------------------------------------------------------- sendAgentMessage
\* if (state.step === 'initial') updateConversationState(..., identifying)
AfterInitialSkipped(map, session) == map
AfterInitial(map, session) ==
    IF map[session].step = "initial"
    THEN updateConversationState(map, session, [step |-> "identifying"])
    ELSE map

\* delete newState.subject_candidate; ... ; delete newState.clarification_context
ClearCapturedButCategory(state) ==
    Merge(state, [subject_candidate |-> None, subject |-> None,
                  learning_preference |-> None, clarification_context |-> None])
ClearCaptured(state) ==
    Merge(state, [subject_candidate |-> None, subject |-> None, category |-> None,
                  learning_preference |-> None, clarification_context |-> None])

\* The confirmed branch: reset for a new conversation
ResetConfirmed(map, session) ==
    LET m == updateConversationState(map, session,
                 [step |-> "identifying", needs_clarification |-> FALSE])
    IN  (session :> ClearCaptured(m[session])) @@ m

\* Up to the first suspension on model.invoke, or to the return when there is
\* none: the key, the state read, the initial -> identifying step, the reset
\* of a confirmed session, the default fallback.
BeginTurn(map, cache, env, sessionId, message) ==
    LET k == getAPIKey(cache, env)
        session == SessionKey(sessionId)
        m0 == getConversationState(map, session)
        entry == m0[session].step
        m1 == AfterInitial(m0, session)
        state == m1[session]
    IN  IF k.key = None
        THEN [pc |-> "rejected", map |-> map, cache |-> k.cache, session |-> session,
              keyed |-> FALSE, entry |-> Some(entry), state |-> None, calls |-> 0,
              prompt |-> None,
              response |-> <<"Error", "OpenAI API key not found">>]
        ELSE IF state.step \in {"identifying", "clarifying", "learning_preference"}
        THEN [pc |-> "llm", map |-> m1, cache |-> k.cache, session |-> session,
              keyed |-> TRUE, entry |-> Some(entry), state |-> Some(state),
              calls |-> 1, prompt |-> <<state.step, message, k.key>>,
              response |-> None]
        ELSE IF state.step = "confirmed"
        THEN [pc |-> "resolved", map |-> ResetConfirmed(m1, session),
              cache |-> k.cache, session |-> session,
              keyed |-> TRUE, entry |-> Some(entry), state |-> Some(state),
              calls |-> 0, prompt |-> None, response |-> AskText]
        ELSE [pc |-> "resolved", map |-> m1, cache |-> k.cache, session |-> session,
              keyed |-> TRUE, entry |-> Some(entry), state |-> Some(state),
              calls |-> 0, prompt |-> None, response |-> AskText]

\* an identifying branch that records the subject of an IDENTIFIED line only
IdentifySubjectOnly(map, session, content) ==
    LET ip == Parts(content, "IDENTIFIED:")
    IN  IF StartsWith(content, "IDENTIFIED:") /\ Part0(ip) # <<>>
        THEN [map |-> updateConversationState(map, session,
                        [step |-> "learning_preference",
                         subject |-> Some(Part0(ip)),
                         needs_clarification |-> FALSE]),
              response |-> <<"identified", Part0(ip), Part1Or(ip, General)>>]
        ELSE [map |-> updateConversationState(map, session, [step |-> "confirmed"]),
              response |-> <<"unclear">>]

\* The identifying branch after model.invoke returned (lines 82-126)
Identify(map, session, content) ==
    LET ip == Parts(content, "IDENTIFIED:")
        cp == Parts(content, "CLARIFY:")
    IN  IF StartsWith(content, "IDENTIFIED:") /\ Part0(ip) # <<>>
        THEN [map |-> updateConversationState(map, session,
                        [step |-> "learning_preference",
                         subject |-> Some(Part0(ip)),
                         category |-> Some(Part1Or(ip, General)),
                         needs_clarification |-> FALSE]),
              response |-> <<"identified", Part0(ip), Part1Or(ip, General)>>]
        ELSE IF StartsWith(content, "CLARIFY:") /\ Part0(cp) # <<>>
        THEN [map |-> updateConversationState(map, session,
                        [step |-> "clarifying",
                         subject_candidate |-> Some(Part0(cp)),
                         needs_clarification |-> TRUE,
                         clarification_context |-> Some(Part1Or(cp, MultipleCategories))]),
              response |-> <<"clarify", Part0(cp), Part1Or(cp, MultipleCategories)>>]
        ELSE [map |-> updateConversationState(map, session, [step |-> "confirmed"]),
              response |-> <<"unclear">>]

\* The clarifying branch after model.invoke returned (lines 146-188, 267-268)
Clarify(map, session, state, content) ==
    LET rp == Parts(content, "RESOLVED:")
    IN  IF StartsWith(content, "RESOLVED:") /\ Part0(rp) # <<>>
        THEN [map |-> updateConversationState(map, session,
                        [step |-> "learning_preference",
                         subject |-> Some(Part0(rp)),
                         category |-> Some(Part1Or(rp, General)),
                         needs_clarification |-> FALSE]),
              response |-> <<"resolved", Part0(rp), Part1Or(rp, General)>>]
        ELSE IF state.subject_candidate # None /\ state.subject_candidate[1] # <<>>
        THEN [map |-> updateConversationState(map, session,
                        [step |-> "learning_preference",
                         subject |-> state.subject_candidate,
                         category |-> Some(General),
                         needs_clarification |-> FALSE]),
              response |-> <<"fallback", state.subject_candidate[1]>>]
        ELSE [map |-> map, response |-> AskText]

\* content.replace('PREFERENCE:', '').trim() as 'basics' | ...  (lines 217-220)
ParsePreference(content) == Trim(RemoveFirst(content, "PREFERENCE:"))

\* a learning_preference branch that gives up on an unparsed answer
PreferFailOver(map, session, state, content) ==
    IF StartsWith(content, "PREFERENCE:")
    THEN LET preference == ParsePreference(content)
         IN  [map |-> updateConversationState(map, session,
                        [step |-> "confirmed",
                         learning_preference |-> Some(preference)]),
              response |-> <<"summary", state.subject, state.category,
                             preferenceLabels(preference)>>]
    ELSE [map |-> updateConversationState(map, session, [step |-> "confirmed"]),
          response |-> <<"reprompt">>]

\* The learning_preference branch after model.invoke returned (lines 214-248)
Prefer(map, session, state, content) ==
    IF StartsWith(content, "PREFERENCE:")
    THEN LET preference == ParsePreference(content)
         IN  [map |-> updateConversationState(map, session,
                        [step |-> "confirmed",
                         learning_preference |-> Some(preference)]),
              response |-> <<"summary", state.subject, state.category,
                             preferenceLabels(preference)>>]
    ELSE [map |-> map, response |-> <<"reprompt">>]

\* sendAgentMessage from the return of model.invoke to its own return
EndTurn(map, session, state, content) ==
    IF state.step = "identifying" THEN Identify(map, session, content)
    ELSE IF state.step = "clarifying" THEN Clarify(map, session, state, content)
    ELSE Prefer(map, session, state, content)

\* ------------------------------------------------------------ engine steps
NoTurn ==
    [sessionId |-> "", session |-> "", message |-> "", keyed |-> FALSE,
     entry |-> None, before |-> None, calls |-> 0, prompt |-> None,
     outcome |-> "none", response |-> None, soloResponse |-> None,
     content |-> None]

Callers(ts) == {t.sessionId : t \in ts}

\* A call of sendAgentMessage runs until it returns, throws or suspends.
StartTurn(sessionId, message, bound) ==
    LET b == BeginTurn(conversationStates, apiKey, envKey, sessionId, message)
        a == BeginTurn(solo[sessionId], apiKey, envKey, sessionId, message)
    IN  /\ nTurns < bound
        /\ nTurns' = nTurns + 1
        /\ conversationStates' = b.map
        /\ solo' = [solo EXCEPT ![sessionId] = a.map]
        /\ apiKey' = b.cache
        /\ UNCHANGED envKey
        /\ IF b.pc = "llm"
           THEN /\ inflight' = inflight \cup
                      {[id |-> nTurns + 1, sessionId |-> sessionId,
                        session |-> b.session, message |-> message,
                        entry |-> b.entry, state |-> b.state, calls |-> b.calls,
                        prompt |-> b.prompt, soloState |-> a.state]}
                /\ UNCHANGED lastTurn
           ELSE /\ lastTurn' =
                      [sessionId |-> sessionId, session |-> b.session,
                       message |-> message, keyed |-> b.keyed, entry |-> b.entry,
                       before |-> b.state, calls |-> b.calls, prompt |-> b.prompt,
                       outcome |-> b.pc, response |-> b.response,
                       soloResponse |-> a.response, content |-> None]
                /\ UNCHANGED inflight

\* model.invoke returned content: the rest of the call runs to its return.
FinishTurn(t, content) ==
    LET e == EndTurn(conversationStates, t.session, t.state[1], content)
        a == EndTurn(solo[t.sessionId], t.session, t.soloState[1], content)
    IN  /\ conversationStates' = e.map
        /\ solo' = [solo EXCEPT ![t.sessionId] = a.map]
        /\ inflight' = inflight \ {t}
        /\ lastTurn' =
              [sessionId |-> t.sessionId, session |-> t.session,
               message |-> t.message, keyed |-> TRUE, entry |-> t.entry,
               before |-> t.state, calls |-> t.calls, prompt |-> t.prompt,
               outcome |-> "resolved", response |-> e.response,
               soloResponse |-> a.response, content |-> Some(content)]
        /\ UNCHANGED <<apiKey, envKey, nTurns>>

\* a catch that answers with the opening question instead of rethrowing
FailTurnSwallowed(t) ==
    /\ inflight' = inflight \ {t}
    /\ lastTurn' =
          [sessionId |-> t.sessionId, session |-> t.session,
           message |-> t.message, keyed |-> TRUE, entry |-> t.entry,
           before |-> t.state, calls |-> t.calls, prompt |-> t.prompt,
           outcome |-> "resolved", response |-> AskText,
           soloResponse |-> AskText, content |-> None]
    /\ UNCHANGED <<conversationStates, solo, apiKey, envKey, nTurns>>

\* a catch that also forgets what the session had captured
FailTurnReset(t) ==
    /\ inflight' = inflight \ {t}
    /\ lastTurn' =
          [sessionId |-> t.sessionId, session |-> t.session,
           message |-> t.message, keyed |-> TRUE, entry |-> t.entry,
           before |-> t.state, calls |-> t.calls, prompt |-> t.prompt,
           outcome |-> "rejected", response |-> <<"Error", "model">>,
           soloResponse |-> <<"Error", "model">>, content |-> None]
    /\ conversationStates' =
          (t.session :> ClearCaptured(conversationStates[t.session]))
              @@ conversationStates
    /\ UNCHANGED <<solo, apiKey, envKey, nTurns>>

\* model.invoke threw: the catch rethrows (lines 269-272).
FailTurn(t) ==
    /\ inflight' = inflight \ {t}
    /\ lastTurn' =
          [sessionId |-> t.sessionId, session |-> t.session,
           message |-> t.message, keyed |-> TRUE, entry |-> t.entry,
           before |-> t.state, calls |-> t.calls, prompt |-> t.prompt,
           outcome |-> "rejected", response |-> <<"Error", "model">>,
           soloResponse |-> <<"Error", "model">>, content |-> None]
    /\ UNCHANGED <<conversationStates, solo, apiKey, envKey, nTurns>>

\* ----------------------------------------------- the engine, called directly
\* One session, one turn at a time.
Send(message) ==
    /\ inflight = {}
    /\ StartTurn("chat-session", message, MaxTurns)
    /\ UNCHANGED <<restVars, chatVars, storeVars, mainVars, paneVars>>

LLMReturn(t, content) ==
    FinishTurn(t, content) /\ UNCHANGED <<restVars, chatVars, storeVars, mainVars, paneVars>>

LLMThrow(t) == FailTurn(t) /\ UNCHANGED <<restVars, chatVars, storeVars, mainVars, paneVars>>

\* Callers that keep each session's turns sequential; sessions interleave.
SendSession(sessionId, message) ==
    /\ sessionId \notin Callers(inflight)
    /\ StartTurn(sessionId, message, MaxSessionTurns)
    /\ UNCHANGED <<restVars, chatVars, storeVars, mainVars, paneVars>>

\* The key served by the main process changes (rotation, removal).
SetEnvKey(k) ==
    /\ k # envKey
    /\ envKey' = k
    /\ UNCHANGED <<conversationStates, apiKey, inflight, lastTurn, solo, nTurns>>
    /\ UNCHANGED <<restVars, chatVars, storeVars, mainVars, paneVars>>

\* ------------------------------------------------ ChatInterface + ChatInput
\* <ChatInput onSendMessage={onSendMessage} />: the disabled prop is not passed
ChatInputDisabled == FALSE

Drafts == {"", "m1", "m2"}   \* inputValue.trim()

\* ChatInput.handleSend's condition
canSend(trimmedMessage, isComposing) ==
    trimmedMessage # "" /\ ~ChatInputDisabled /\ ~isComposing

\* handleSend -> handleSendMessage -> sendAgentMessage('chat-session')
ChatSend(trimmedMessage, isComposing) ==
    /\ canSend(trimmedMessage, isComposing)
    /\ StartTurn("chat-session", trimmedMessage, MaxChatTurns)
    /\ isTyping' = (inflight' # inflight)
    /\ nMessages' = nMessages + (IF inflight' # inflight THEN 1 ELSE 2)
    /\ UNCHANGED <<restVars, storeVars, mainVars, paneVars>>

\* the awaited sendAgentMessage resolved: the AI message is appended
ChatLLMReturn(t, content) ==
    /\ FinishTurn(t, content)
    /\ isTyping' = FALSE
    /\ nMessages' = nMessages + 1
    /\ UNCHANGED <<restVars, storeVars, mainVars, paneVars>>

\* the awaited sendAgentMessage rejected: the error message is appended
ChatLLMThrow(t) ==
    /\ FailTurn(t)
    /\ isTyping' = FALSE
    /\ nMessages' = nMessages + 1
    /\ UNCHANGED <<restVars, storeVars, mainVars, paneVars>>

\* ---------------------------------------------------------- document store
Reqs == {"r1"}

\* A learning request as the dialogue's caller persists it.
NewRequest(id) ==
    [_id |-> id, rev |-> 1, subject |-> <<"Kubernetes">>, category |-> <<"DevOps">>,
     learningPreference |-> <<"core_concepts">>, status |-> "pending",
     lessonPlanId |-> None]

\* createDoc: db.put of a document without _rev succeeds only for a new _id
canCreate(docs, doc) == doc._id \notin DOMAIN docs
createDoc(docs, doc) == (doc._id :> doc) @@ docs

\* updateDoc: db.put succeeds only against the revision the document carries
canUpdate(docs, doc) == doc._id \in DOMAIN docs /\ docs[doc._id].rev = doc.rev
updateDoc(docs, doc) == (doc._id :> [doc EXCEPT !.rev = doc.rev + 1]) @@ docs

\* deleteDoc: db.get throws for a missing document, db.remove takes it out
canDelete(docs, id) == id \in DOMAIN docs
deleteDoc(docs, id) == [x \in DOMAIN docs \ {id} |-> docs[x]]

\* the gateway's operations on the two record kinds
createLessonPlan(plans, doc) == createDoc(plans, doc)
updateLearningRequest(reqs, doc) == updateDoc(reqs, doc)
deleteLessonPlan(plans, id) == deleteDoc(plans, id)
deleteLearningRequest(reqs, id) == deleteDoc(reqs, id)

\* the lesson plans of a learning request, in allDocs (_id) order
RECURSIVE SortIds(_)
SortIds(ids) ==
    IF ids = {} THEN <<>>
    ELSE LET lo == CHOOSE i \in ids : \A j \in ids : i <= j
         IN  <<lo>> \o SortIds(ids \ {lo})
getLessonPlansByLearningRequestId(plans, id) ==
    SortIds({p \in DOMAIN plans : plans[p].learningRequestId = id})

\* ---------------------------------------------------------------- pipeline
\* the graph state's reducers: every channel keeps the update's value, if any
ReduceState(state, update) ==
    [k \in DOMAIN state |-> IF k \in DOMAIN update THEN update[k] ELSE state[k]]

\* formulate_query
formulate_query(lr) ==
    <<"tutorial for", lr.learningPreference, "of", lr.subject, "in", lr.category>>

\* What tavilyTool.invoke + JSON.parse may yield: [ok, results]
SearchOutcomes ==
    { [ok |-> FALSE, results |-> <<>>],
      [ok |-> TRUE, results |-> <<>>],
      [ok |-> TRUE, results |-> <<"hit1", "hit2">>] }

\* call_tavily: the partial state it returns
call_tavily(out) ==
    IF out.ok THEN [searchResults |-> out.results]
    ELSE [error |-> Some("Tavily search failed"), searchResults |-> <<>>]

ResA == [title |-> "ta", url |-> "ua", summary |-> "sa"]
ResB == [title |-> "tb", url |-> "ub", summary |-> "sb"]
ResC == [title |-> "tc", url |-> "uc", summary |-> "sc"]
ResNoSummary == [title |-> "tb", url |-> "ub", summary |-> ""]
ResNoTitle == [title |-> "", url |-> "ub", summary |-> "sb"]
ResNoUrl == [title |-> "tb", url |-> "", summary |-> "sb"]

\* The JSON texts the model may embed, by name
Payload(name) ==
    CASE name = "P3" -> [kind |-> "array", items |-> <<ResA, ResB, ResC>>]
      [] name = "P1" -> [kind |-> "array", items |-> <<ResA>>]
      [] name = "P0" -> [kind |-> "array", items |-> <<>>]
      [] name = "PBad" -> [kind |-> "array", items |-> <<ResA, ResNoSummary, ResC>>]
      [] name = "PBadT" -> [kind |-> "array", items |-> <<ResNoTitle, ResA>>]
      [] name = "PBadU" -> [kind |-> "array", items |-> <<ResA, ResB, ResC, ResNoUrl>>]
      [] name = "PObj" -> [kind |-> "object", items |-> <<>>]
      [] OTHER -> [kind |-> "invalid", items |-> <<>>]

\* the tokens of a Markdown code fence: three backticks + json, three backticks
FenceJson == "<fence>json"
Fence == "<fence>"
NL == "\n"

RECURSIVE TrimWsLeft(_)
TrimWsLeft(s) == IF s # <<>> /\ Head(s) \in {SP, NL} THEN TrimWsLeft(Tail(s)) ELSE s
RECURSIVE TrimWsRight(_)
TrimWsRight(s) ==
    IF s # <<>> /\ s[Len(s)] \in {SP, NL}
    THEN TrimWsRight(SubSeq(s, 1, Len(s) - 1)) ELSE s
TrimWs(s) == TrimWsRight(TrimWsLeft(s))

\* .replace of a closing fence, and the whitespace before it, at the end
StripClosingFence(s) ==
    IF s # <<>> /\ s[Len(s)] = Fence
    THEN TrimWsRight(SubSeq(s, 1, Len(s) - 1)) ELSE s

\* a cleaning that knows the json fence only
CleanContentJsonOnly(responseContent) ==
    LET c == TrimWs(responseContent)
    IN  IF StartsWith(c, FenceJson) THEN StripClosingFence(TrimWsLeft(Tail(c)))
        ELSE c

\* the cleaning of the response text (lines 351-359)
CleanContent(responseContent) ==
    LET c == TrimWs(responseContent)
    IN  IF StartsWith(c, FenceJson) THEN StripClosingFence(TrimWsLeft(Tail(c)))
        ELSE IF StartsWith(c, Fence) THEN StripClosingFence(TrimWsLeft(Tail(c)))
        ELSE c

\* JSON.parse: whitespace around one JSON text
JSONparse(text) ==
    LET t == TrimWs(text)
    IN  IF Len(t) = 1 THEN Payload(t[1]) ELSE [kind |-> "invalid", items |-> <<>>]

\* a check of title and url only
validResourceTitleUrl(r) == r.title # "" /\ r.url # ""

\* !resource.title || !resource.url || !resource.summary is false
validResource(r) == r.title # "" /\ r.url # "" /\ r.summary # ""

\* The texts the curation call may return
CurationContents ==
    { <<"P3">>, <<FenceJson, NL, "P3", NL, Fence>>, <<Fence, NL, "P3", NL, Fence>>,
      <<"P1">>, <<"P0">>, <<"PBad">>, <<"PBadT">>,
      <<FenceJson, NL, "PBadU", NL, Fence>>, <<"PObj">>, <<"PTxt">>,
      <<Fence, "P1", Fence, NL>>,
      <<"Here", SP, "you", SP, "go:", NL, "P3">> }

\* curate_with_llm after llm.invoke: [ok, content] to the partial state
curate_with_llm(out) ==
    LET v == JSONparse(CleanContent(out.content))
    IN  IF ~out.ok THEN [error |-> Some("LLM curation failed"), curatedPlan |-> <<>>]
        ELSE IF v.kind = "invalid"
        THEN [error |-> Some("LLM curation failed: Failed to parse LLM response"),
              curatedPlan |-> <<>>]
        ELSE IF v.kind # "array"
        THEN [error |-> Some("LLM curation failed: Failed to parse LLM response: not an array"),
              curatedPlan |-> <<>>]
        ELSE IF \E i \in 1..Len(v.items) : ~validResource(v.items[i])
        THEN [error |-> Some("LLM curation failed: Failed to parse LLM response: missing fields"),
              curatedPlan |-> <<>>]
        ELSE [curatedPlan |-> v.items]

\* a curate_with_llm that asks the model whatever the search gave
needsCurationAlways(state) == TRUE

\* curate_with_llm goes on to the model: searchResults is not empty (line 294)
needsCuration(state) == state.searchResults # <<>>

\* curate_with_llm without search results (lines 293-300)
NoResultsUpdate ==
    [curatedPlan |-> <<>>, error |-> Some("No search results available for curation")]

\* save_plan without a curated plan (lines 408-414)
NoPlanUpdate == [error |-> Some("No curated plan available to save")]

\* save_plan's catch (lines 464-469)
SaveFailedUpdate == [error |-> Some("Failed to save lesson plan")]

\* a lessonPlanDoc with the resources in reverse order
lessonPlanDocReversed(state, id) ==
    [_id |-> id, learningRequestId |-> state.learningRequest._id,
     resources |-> [i \in 1..Len(state.curatedPlan) |->
                      state.curatedPlan[Len(state.curatedPlan) + 1 - i]]]

\* lessonPlanDoc (lines 419-427)
lessonPlanDoc(state, id) ==
    [_id |-> id, learningRequestId |-> state.learningRequest._id,
     resources |-> state.curatedPlan]

\* a write that would name the plan and leave the status alone
updatedLearningRequestIdOnly(lr, planId) == [lr EXCEPT !.lessonPlanId = Some(planId)]

\* updatedLearningRequest (lines 436-441): status and lessonPlanId in one document
updatedLearningRequest(lr, planId) ==
    [lr EXCEPT !.status = "completed", !.lessonPlanId = Some(planId)]

\* the initial graph state of an invocation (main.ts 236-241, reducers' defaults)
InitialGraphState(lr) ==
    [learningRequest |-> lr, searchQuery |-> <<>>, searchResults |-> <<>>,
     curatedPlan |-> <<>>, error |-> None]

\* what the handler returns for a final graph state (main.ts 246-250)
HandlerResult(state) ==
    [success |-> TRUE, lessonPlan |-> Some(state.curatedPlan), error |-> None]

\* what the handler's catch returns (main.ts 251-254)
HandlerCaught(message) ==
    [success |-> FALSE, lessonPlan |-> None, error |-> Some(message)]

NoRun ==
    [id |-> 0, pipeline |-> "none", result |-> None, error |-> None,
     persistFailed |-> FALSE, created |-> None, updated |-> FALSE,
     request |-> None, search |-> None, llm |-> None, curation |-> None]

\* the handler returns: the run is over
Return(old, run, state, persistFailed, created, updated) ==
    /\ runs' = runs \ {old}
    /\ lastRun' =
          [id |-> run.id, pipeline |-> "resolved", result |-> Some(HandlerResult(state)),
           error |-> state.error, persistFailed |-> persistFailed,
           created |-> created, updated |-> updated,
           request |-> Some(state.learningRequest), search |-> run.search,
           llm |-> run.llm, curation |-> run.curation]

\* lessonPlannerAgent.invoke up to the search call
Invoke(lr) ==
    /\ nRuns' = nRuns + 1
    /\ runs' = runs \cup
          {[id |-> nRuns + 1, pc |-> "search", planId |-> None,
            search |-> None, llm |-> None, curation |-> None,
            state |-> ReduceState(InitialGraphState(lr),
                            [searchQuery |-> formulate_query(lr)])]}

\* ipcMain.handle('invoke-lesson-planner') is called with a persisted request;
\* formulate_query runs and call_tavily suspends on the search.
RunStart(r) ==
    /\ nRuns + nDels < MaxCalls
    /\ r \in DOMAIN learningRequests
    /\ Invoke(learningRequests[r])
    /\ UNCHANGED <<storeVars, lastRun, dels, lastDel, nDels>>
    /\ UNCHANGED <<restVars, engineVars, chatVars, paneVars>>

\* The handler is called without a document: formulate_query reads a field of
\* undefined, the invocation rejects and the handler's catch answers.
RunWithoutRequest ==
    /\ nRuns + nDels < MaxCalls
    /\ nRuns' = nRuns + 1
    /\ lastRun' =
          [id |-> nRuns + 1, pipeline |-> "rejected",
           result |-> Some(HandlerCaught("TypeError")),
           error |-> None, persistFailed |-> FALSE, created |-> None,
           updated |-> FALSE, request |-> None, search |-> None, llm |-> None,
           curation |-> None]
    /\ UNCHANGED <<storeVars, runs, dels, lastDel, nDels>>
    /\ UNCHANGED <<restVars, engineVars, chatVars, paneVars>>

\* save_plan without its check for an empty plan
EnterSavePlanUnguarded(old, run, state) ==
    /\ runs' = (runs \ {old}) \cup
          {[run EXCEPT !.pc = "create", !.state = state, !.planId = Some(clock)]}
    /\ clock' = clock + 1
    /\ UNCHANGED lastRun

\* save_plan up to its first persistence call, or to the handler's return
EnterSavePlan(old, run, state) ==
    IF state.curatedPlan = <<>>
    THEN /\ Return(old, run, ReduceState(state, NoPlanUpdate), FALSE, None, FALSE)
         /\ UNCHANGED clock
    ELSE /\ runs' = (runs \ {old}) \cup
               {[run EXCEPT !.pc = "create", !.state = state, !.planId = Some(clock)]}
         /\ clock' = clock + 1
         /\ UNCHANGED lastRun

\* the search settled: call_tavily returns, curate_with_llm starts
SearchDone(run, out) ==
    /\ run.pc = "search"
    /\ LET st == ReduceState(run.state, call_tavily(out))
           searched == [run EXCEPT !.search = Some(out)]
       IN  IF ~needsCuration(st)
           THEN EnterSavePlan(run, [searched EXCEPT !.curation = Some(NoResultsUpdate)],
                              ReduceState(st, NoResultsUpdate))
           ELSE /\ runs' = (runs \ {run}) \cup
                      {[searched EXCEPT !.pc = "curate", !.state = st]}
                /\ UNCHANGED <<lastRun, clock>>
    /\ UNCHANGED <<learningRequests, lessonPlans, createdPlans, dels, lastDel, nRuns, nDels>>
    /\ UNCHANGED <<restVars, engineVars, chatVars, paneVars>>

\* llm.invoke settled: curate_with_llm returns, save_plan starts
CurateDone(run, out) ==
    /\ run.pc = "curate"
    /\ EnterSavePlan(run,
                     [run EXCEPT !.llm = Some(out),
                                 !.curation = Some(curate_with_llm(out))],
                     ReduceState(run.state, curate_with_llm(out)))
    /\ UNCHANGED <<learningRequests, lessonPlans, createdPlans, dels, lastDel, nRuns, nDels>>
    /\ UNCHANGED <<restVars, engineVars, chatVars, paneVars>>

\* createLessonPlan settled
CreateDone(run, ok) ==
    /\ run.pc = "create"
    /\ LET doc == lessonPlanDoc(run.state, run.planId[1])
       IN  IF ok /\ canCreate(lessonPlans, doc)
           THEN /\ lessonPlans' = createLessonPlan(lessonPlans, doc)
                /\ createdPlans' = createdPlans \cup {doc._id}
                /\ runs' = (runs \ {run}) \cup {[run EXCEPT !.pc = "update"]}
                /\ UNCHANGED lastRun
           ELSE /\ Return(run, run, ReduceState(run.state, SaveFailedUpdate), TRUE, None, FALSE)
                /\ UNCHANGED <<lessonPlans, createdPlans>>
    /\ UNCHANGED <<learningRequests, clock, dels, lastDel, nRuns, nDels>>
    /\ UNCHANGED <<restVars, engineVars, chatVars, paneVars>>

\* a save_plan that reports no error when updateLearningRequest failed
UpdateDoneUnchecked(run, ok) ==
    /\ run.pc = "update"
    /\ LET doc == updatedLearningRequest(run.state.learningRequest, run.planId[1])
       IN  IF ok /\ canUpdate(learningRequests, doc)
           THEN /\ learningRequests' = updateLearningRequest(learningRequests, doc)
                /\ Return(run, run, run.state, FALSE, run.planId, TRUE)
           ELSE /\ Return(run, run, run.state, TRUE, run.planId, FALSE)
                /\ UNCHANGED learningRequests
    /\ UNCHANGED <<lessonPlans, createdPlans, clock, dels, lastDel, nRuns, nDels>>
    /\ UNCHANGED <<restVars, engineVars, chatVars, paneVars>>

\* updateLearningRequest settled
UpdateDone(run, ok) ==
    /\ run.pc = "update"
    /\ LET doc == updatedLearningRequest(run.state.learningRequest, run.planId[1])
       IN  IF ok /\ canUpdate(learningRequests, doc)
           THEN /\ learningRequests' = updateLearningRequest(learningRequests, doc)
                /\ Return(run, run, run.state, FALSE, run.planId, TRUE)
           ELSE /\ Return(run, run, ReduceState(run.state, SaveFailedUpdate), TRUE, run.planId, FALSE)
                /\ UNCHANGED learningRequests
    /\ UNCHANGED <<lessonPlans, createdPlans, clock, dels, lastDel, nRuns, nDels>>
    /\ UNCHANGED <<restVars, engineVars, chatVars, paneVars>>

\* ------------------------------------ ipcMain.handle('db:deleteLearningRequest')
NoDel == [req |-> "", outcome |-> "none"]

\* the handler is called: getLessonPlansByLearningRequestId answers
DeleteStart(r, ok) ==
    /\ nRuns + nDels < MaxCalls
    /\ nDels' = nDels + 1
    /\ IF ok
       THEN /\ dels' = dels \cup
                  {[id |-> nDels + 1, req |-> r,
                    todo |-> getLessonPlansByLearningRequestId(lessonPlans, r)]}
            /\ UNCHANGED lastDel
       ELSE /\ lastDel' = [req |-> r, outcome |-> "rejected"]
            /\ UNCHANGED dels
    /\ UNCHANGED <<storeVars, runs, lastRun, nRuns>>
    /\ UNCHANGED <<restVars, engineVars, chatVars, paneVars>>

\* deleteLessonPlan(lessonPlan._id) settled
DeletePlanDone(d, ok) ==
    /\ d.todo # <<>>
    /\ IF ok /\ canDelete(lessonPlans, Head(d.todo))
       THEN /\ lessonPlans' = deleteLessonPlan(lessonPlans, Head(d.todo))
            /\ dels' = (dels \ {d}) \cup {[d EXCEPT !.todo = Tail(d.todo)]}
            /\ UNCHANGED lastDel
       ELSE /\ dels' = dels \ {d}
            /\ lastDel' = [req |-> d.req, outcome |-> "rejected"]
            /\ UNCHANGED lessonPlans
    /\ UNCHANGED <<learningRequests, createdPlans, clock, runs, lastRun, nRuns, nDels>>
    /\ UNCHANGED <<restVars, engineVars, chatVars, paneVars>>

\* deleteLearningRequest(id) settled
DeleteRequestDone(d, ok) ==
    /\ d.todo = <<>>
    /\ dels' = dels \ {d}
    /\ IF ok /\ canDelete(learningRequests, d.req)
       THEN /\ learningRequests' = deleteLearningRequest(learningRequests, d.req)
            /\ lastDel' = [req |-> d.req, outcome |-> "resolved"]
       ELSE /\ lastDel' = [req |-> d.req, outcome |-> "rejected"]
            /\ UNCHANGED learningRequests
    /\ UNCHANGED <<lessonPlans, createdPlans, clock, runs, lastRun, nRuns, nDels>>
    /\ UNCHANGED <<restVars, engineVars, chatVars, paneVars>>

\* ------------------------------------------------------------- ContentPane
Topics == {"r1", "r2"}

\* allPlans.find(plan => plan.learningRequestId === topic), in allDocs order
findPlan(plans, topic) ==
    LET found == getLessonPlansByLearningRequestId(plans, topic)
    IN  IF found = <<>> THEN None ELSE Some(Head(found))

\* the 'Curate My Lesson Plan' button is on screen and enabled
canGenerate ==
    /\ ~loading
    /\ selectedTopicId # None
    /\ lessonPlan = None
    /\ ~generating

\* the user picks another topic: the effect on selectedTopicId starts a load
SelectTopic(t) ==
    /\ nPaneEvents < MaxPaneEvents
    /\ selectedTopicId # Some(t)
    /\ nPaneEvents' = nPaneEvents + 1
    /\ selectedTopicId' = Some(t)
    /\ loading' = TRUE
    /\ paneError' = None
    /\ loads' = loads \cup {[id |-> nPaneEvents + 1, topic |-> t]}
    /\ UNCHANGED <<lessonPlan, generating, gens>>
    /\ UNCHANGED <<restVars, engineVars, chatVars, storeVars, mainVars>>

\* getAllLessonPlans of a load settled
LoadDone(l, ok) ==
    /\ loads' = loads \ {l}
    /\ loading' = FALSE
    /\ IF ok
       THEN lessonPlan' = findPlan(lessonPlans, l.topic) /\ UNCHANGED paneError
       ELSE paneError' = Some("Failed to load lesson plan") /\ UNCHANGED lessonPlan
    /\ UNCHANGED <<selectedTopicId, generating, gens, nPaneEvents>>
    /\ UNCHANGED <<restVars, engineVars, chatVars, storeVars, mainVars>>

\* the user clicks the button: handleGenerateLessonPlan up to getAllLearningRequests
ClickGenerate ==
    /\ nPaneEvents < MaxPaneEvents
    /\ canGenerate
    /\ nPaneEvents' = nPaneEvents + 1
    /\ generating' = TRUE
    /\ paneError' = None
    /\ gens' = gens \cup
          {[id |-> nPaneEvents + 1, topic |-> selectedTopicId[1], pc |-> "requests",
            run |-> 0]}
    /\ UNCHANGED <<selectedTopicId, lessonPlan, loading, loads>>
    /\ UNCHANGED <<restVars, engineVars, chatVars, storeVars, mainVars>>

\* handleGenerateLessonPlan is over: its finally block, with the error it set
GenEnd(g, err) ==
    /\ gens' = gens \ {g}
    /\ generating' = FALSE
    /\ paneError' = IF err = None THEN paneError ELSE err

\* getAllLearningRequests settled: the pipeline is invoked with the found request
GenRequestsDone(g, ok) ==
    /\ g.pc = "requests"
    /\ IF ok /\ g.topic \in DOMAIN learningRequests
       THEN /\ Invoke(learningRequests[g.topic])
            /\ gens' = (gens \ {g}) \cup {[g EXCEPT !.pc = "pipeline", !.run = nRuns + 1]}
            /\ UNCHANGED <<generating, paneError>>
       ELSE /\ GenEnd(g, IF ok THEN Some("Learning request not found")
                         ELSE Some("Failed to generate lesson plan"))
            /\ UNCHANGED <<runs, nRuns>>
    /\ UNCHANGED <<selectedTopicId, lessonPlan, loading, loads, nPaneEvents>>
    /\ UNCHANGED <<storeVars, lastRun, dels, lastDel, nDels>>
    /\ UNCHANGED <<restVars, engineVars, chatVars>>

\* invokeLessonPlanner settled: result.success && result.lessonPlan
GenPipelineDone(g) ==
    /\ g.pc = "pipeline"
    /\ lastRun.id = g.run
    /\ LET result == lastRun.result[1]
       IN  IF result.success /\ result.lessonPlan # None
           THEN /\ gens' = (gens \ {g}) \cup {[g EXCEPT !.pc = "reload"]}
                /\ UNCHANGED <<generating, paneError>>
           ELSE GenEnd(g, IF result.error # None THEN result.error
                          ELSE Some("Failed to generate lesson plan"))
    /\ UNCHANGED <<selectedTopicId, lessonPlan, loading, loads, nPaneEvents>>
    /\ UNCHANGED <<restVars, engineVars, chatVars, storeVars, mainVars>>

\* the reload's getAllLessonPlans settled
GenReloadDone(g, ok) ==
    /\ g.pc = "reload"
    /\ IF ok
       THEN GenEnd(g, None) /\ lessonPlan' = findPlan(lessonPlans, g.topic)
       ELSE GenEnd(g, Some("Failed to generate lesson plan")) /\ UNCHANGED lessonPlan
    /\ UNCHANGED <<selectedTopicId, loading, loads, nPaneEvents>>
    /\ UNCHANGED <<restVars, engineVars, chatVars, storeVars, mainVars>>

\* ----------------------------------------------------------- OpenAIService
\* What model.invoke may throw: status (0 when the error has none), code,
\* and whether the message contains 'timeout'.
ModelErrors ==
    { [status |-> 401, code |-> "", timeout |-> FALSE],
      [status |-> 429, code |-> "", timeout |-> FALSE],
      [status |-> 500, code |-> "", timeout |-> FALSE],
      [status |-> 0, code |-> "ECONNRESET", timeout |-> FALSE],
      [status |-> 0, code |-> "", timeout |-> TRUE],
      [status |-> 0, code |-> "", timeout |-> FALSE] }

InvokeOutcomes ==
    {[ok |-> TRUE, error |-> None]} \cup {[ok |-> FALSE, error |-> Some(e)] : e \in ModelErrors}

\* RequestHandler.parseError: the type and the retryable flag
parseError(error) ==
    IF error.status = 401 THEN [type |-> "INVALID_API_KEY", retryable |-> FALSE]
    ELSE IF error.status = 429 THEN [type |-> "RATE_LIMIT_EXCEEDED", retryable |-> TRUE]
    ELSE IF error.status = 402 THEN [type |-> "QUOTA_EXCEEDED", retryable |-> FALSE]
    ELSE IF error.status = 404 THEN [type |-> "MODEL_NOT_FOUND", retryable |-> FALSE]
    ELSE IF error.status >= 400 /\ error.status < 500
    THEN [type |-> "INVALID_REQUEST", retryable |-> FALSE]
    ELSE IF error.status >= 500 THEN [type |-> "SERVER_ERROR", retryable |-> TRUE]
    ELSE IF error.code \in {"ECONNRESET", "ENOTFOUND"}
    THEN [type |-> "NETWORK_ERROR", retryable |-> TRUE]
    ELSE IF error.code = "ETIMEDOUT" \/ error.timeout
    THEN [type |-> "TIMEOUT", retryable |-> TRUE]
    ELSE [type |-> "UNKNOWN", retryable |-> FALSE]

\* a check that takes every error for a retryable one
isRetryableAlways(error) == TRUE

\* requestHandler.isRetryableError(requestHandler.parseError(error))
isRetryableError(error) == parseError(error).retryable

NoCompletion ==
    [id |-> 0, outcome |-> "none", ready |-> FALSE, log |-> <<>>]

\* chatCompletion settles: what it did is kept
Settle(c, outcome, log) ==
    /\ completions' = completions \ {c}
    /\ lastCompletion' = [id |-> c.id, outcome |-> outcome, ready |-> c.ready, log |-> log]

\* chatCompletion from the key lookup (line 68) to the first invoke of
\* sendWithRetry, or to the rejection
SendRequest(c, log, hasKey, valid) ==
    IF hasKey /\ valid
    THEN /\ completions' = (completions \ {c}) \cup
               {[c EXCEPT !.pc = "attempt", !.attempt = 1, !.log = log]}
         /\ UNCHANGED lastCompletion
    ELSE Settle(c, "rejected", log)

\* chatCompletion is called: an uninitialized service runs initialize() up to
\* the invoke of testConnection, an initialized one goes on to the request
ChatCompletion(hasKey, valid) ==
    /\ completions = {}
    /\ nCompletions < MaxCompletions
    /\ nCompletions' = nCompletions + 1
    /\ LET c == [id |-> nCompletions + 1, ready |-> serviceInitialized, pc |-> "test",
                 attempt |-> 0, log |-> <<>>]
       IN  IF serviceInitialized THEN SendRequest(c, <<>>, hasKey, valid)
           ELSE IF hasKey
           THEN completions' = completions \cup {c} /\ UNCHANGED lastCompletion
           ELSE Settle(c, "rejected", <<>>)
    /\ UNCHANGED <<retryAttempts, serviceInitialized>>
    /\ UNCHANGED <<engineVars, chatVars, storeVars, mainVars, paneVars, agentVars, detailVars>>

\* the invoke of testConnection settled
TestDone(c, out, hasKey, valid) ==
    /\ c.pc = "test"
    /\ LET log == Append(c.log, [phase |-> "test", out |-> out])
       IN  IF out.ok
           THEN /\ serviceInitialized' = TRUE
                /\ SendRequest(c, log, hasKey, valid)
           ELSE /\ Settle(c, "rejected", log)
                /\ UNCHANGED serviceInitialized
    /\ UNCHANGED <<retryAttempts, nCompletions>>
    /\ UNCHANGED <<engineVars, chatVars, storeVars, mainVars, paneVars, agentVars, detailVars>>

\* an invoke of sendWithRetry settled (lines 288-318)
AttemptDone(c, out) ==
    /\ c.pc = "attempt"
    /\ LET log == Append(c.log, [phase |-> "request", out |-> out])
       IN  IF out.ok THEN Settle(c, "resolved", log)
           ELSE IF ~isRetryableError(out.error[1]) \/ c.attempt = retryAttempts
           THEN Settle(c, "rejected", log)
           ELSE /\ completions' = (completions \ {c}) \cup
                      {[c EXCEPT !.attempt = c.attempt + 1, !.log = log]}
                /\ UNCHANGED lastCompletion
    /\ UNCHANGED <<retryAttempts, serviceInitialized, nCompletions>>
    /\ UNCHANGED <<engineVars, chatVars, storeVars, mainVars, paneVars, agentVars, detailVars>>

ServiceInit ==
    /\ serviceInitialized = FALSE
    /\ completions = {}
    /\ lastCompletion = NoCompletion
    /\ nCompletions = 0

\* ------------------------------------------------------------ BaseAgentImpl
\* input.message as the caller may pass it
AgentMessages == {<<>>, <<SP>>, <<"test">>}

\* What a rejected await or a throw hands to the catch of process: nothing
\* (undefined), or a value with, perhaps, a message and a type.
Thrown ==
    { [defined |-> FALSE, message |-> None, type |-> None],
      [defined |-> TRUE, message |-> None, type |-> None],
      [defined |-> TRUE, message |-> Some(""), type |-> None],
      [defined |-> TRUE, message |-> Some("API connection failed"), type |-> None],
      [defined |-> TRUE, message |-> Some("Too many requests"),
       type |-> Some("RATE_LIMIT_ERROR")] }

\* createAgentError(originalError, type, message)
createAgentError(type, message) ==
    [defined |-> TRUE, message |-> Some(message), type |-> Some(type)]

\* getErrorMessage(error)
getErrorMessage(error) ==
    IF error.type = Some("API_ERROR") THEN "I encountered an issue connecting to my AI service"
    ELSE IF error.type = Some("VALIDATION_ERROR")
    THEN (IF error.message[1] # "" THEN error.message[1]
          ELSE "I couldn't understand your request")
    ELSE IF error.type = Some("TIMEOUT_ERROR") THEN "The request took too long to process"
    ELSE IF error.type = Some("RATE_LIMIT_ERROR") THEN "I'm processing too many requests right now"
    ELSE "I encountered an unexpected error"

\* handleError(error) (lines 169-181)
handleError(error) ==
    LET agentError == createAgentError("UNKNOWN_ERROR", "Unknown error occurred")
    IN  [settled |-> "resolved", success |-> FALSE,
         response |-> getErrorMessage(agentError),
         error |-> agentError.message, errorType |-> agentError.type[1]]

\* a catch that surfaces whatever message the thrown value has
CaughtMessageOnly(error) ==
    [settled |-> "resolved", success |-> FALSE, response |-> getErrorMessage(error),
     error |-> error.message,
     errorType |-> IF error.type # None THEN error.type[1] ELSE "UNKNOWN_ERROR"]

\* the catch of process (lines 109-120)
Caught(error) ==
    IF error.defined /\ error.message # None /\ error.message[1] # ""
    THEN [settled |-> "resolved", success |-> FALSE,
          response |-> getErrorMessage(error), error |-> error.message,
          errorType |-> IF error.type # None THEN error.type[1] ELSE "UNKNOWN_ERROR"]
    ELSE handleError(error)

\* validateInput(input) does not throw
validInput(message) == message # <<>> /\ Trim(message) # <<>>

\* What processInput may do: return a result, return nothing, throw
ProcessOutcomes ==
    { [kind |-> "return", result |-> Some("Test agent processed"), value |-> None],
      [kind |-> "return", result |-> None, value |-> None] }
        \cup {[kind |-> "throw", result |-> None, value |-> Some(v)] : v \in Thrown}

\* What initialize() may run into
InitializeOutcomes == {"ok", "langsmith fails", "onInitialize fails"}

NoOutput ==
    [id |-> 0, cause |-> "none",
     output |-> [settled |-> "none", success |-> FALSE, response |-> "",
                 error |-> None, errorType |-> ""]]

\* process returns
Output(p, cause, output) ==
    /\ processes' = processes \ {p}
    /\ lastOutput' = [id |-> p.id, cause |-> cause, output |-> output]

\* process from validateInput to the await of processInput, or to its return
Validate(p) ==
    IF ~validInput(p.message)
    THEN Output(p, "invalid", Caught(createAgentError("VALIDATION_ERROR", "Message is required")))
    ELSE IF ~p.canHandle
    THEN Output(p, "unsupported",
                Caught(createAgentError("VALIDATION_ERROR", "Input not supported by this agent")))
    ELSE /\ processes' = (processes \ {p}) \cup {[p EXCEPT !.pc = "processInput"]}
         /\ UNCHANGED lastOutput

\* process(input) is called; canHandle is the subclass's answer for the input
Process(message, canHandle) ==
    /\ nProcess < MaxProcess
    /\ nProcess' = nProcess + 1
    /\ LET p == [id |-> nProcess + 1, message |-> message, canHandle |-> canHandle,
                 pc |-> "initialize"]
       IN  IF agentInitialized THEN Validate(p)
           ELSE processes' = processes \cup {p} /\ UNCHANGED lastOutput
    /\ UNCHANGED <<agentInitialized, apiKey>>
    /\ UNCHANGED <<conversationStates, envKey, inflight, lastTurn, solo, nTurns>>
    /\ UNCHANGED <<chatVars, storeVars, mainVars, paneVars, serviceVars, detailVars>>

\* the awaited initialize() settled (lines 31-58, 60-81)
InitializeDone(p, how) ==
    /\ p.pc = "initialize"
    /\ LET k == getAPIKey(apiKey, envKey)
           reachedKey == how # "langsmith fails"
           ok == how = "ok" /\ k.key # None
       IN  /\ apiKey' = IF reachedKey THEN k.cache ELSE apiKey
           /\ IF ok THEN agentInitialized' = TRUE /\ Validate(p)
              ELSE /\ Output(p, "initialize failed",
                             Caught(createAgentError("UNKNOWN_ERROR",
                                                     "Failed to initialize agent")))
                   /\ UNCHANGED agentInitialized
    /\ UNCHANGED nProcess
    /\ UNCHANGED <<conversationStates, envKey, inflight, lastTurn, solo, nTurns>>
    /\ UNCHANGED <<chatVars, storeVars, mainVars, paneVars, serviceVars, detailVars>>

\* the awaited processInput settled (lines 102-120)
ProcessInputDone(p, out) ==
    /\ p.pc = "processInput"
    /\ IF out.kind = "throw" THEN Output(p, "threw", Caught(out.value[1]))
       ELSE IF out.result = None
       THEN Output(p, "returned nothing",
                   Caught([defined |-> TRUE, message |-> Some("TypeError"), type |-> None]))
       ELSE Output(p, "returned",
                   [settled |-> "resolved", success |-> TRUE, response |-> out.result[1],
                    error |-> None, errorType |-> ""])
    /\ UNCHANGED <<agentInitialized, nProcess>>
    /\ UNCHANGED <<engineVars, chatVars, storeVars, mainVars, paneVars, serviceVars, detailVars>>

AgentInit ==
    /\ agentInitialized = FALSE
    /\ processes = {}
    /\ lastOutput = NoOutput
    /\ nProcess = 0

\* ---------------------------------- the lesson-plan view (DetailPane.tsx)
\* getLessonPlan / updateLessonPlan of the gateway
getLessonPlan(plans, id) == StateOf(plans, id)
updateLessonPlan(plans, doc) == updateDoc(plans, doc)

\* resources.filter((_, index) => index !== resourceIndex), 0-based index
RemoveAt(resources, index) ==
    [k \in 1..(Len(resources) - (IF index < Len(resources) THEN 1 ELSE 0)) |->
        IF k <= index THEN resources[k] ELSE resources[k + 1]]

\* restoredResources.splice(index, 0, resource), 0-based index
InsertAt(resources, index, resource) ==
    LET at == IF index > Len(resources) THEN Len(resources) ELSE index
    IN  SubSeq(resources, 1, at) \o <<resource>> \o SubSeq(resources, at + 1, Len(resources))

\* the view renders the lesson plan (none of the early returns at 239-300)
planShown == ~loading /\ selectedTopicId # None /\ lessonPlan # None

NoRemoval == [n |-> 0, plan |-> 0, before |-> <<>>, clean |-> FALSE]

\* a write of plan by something other than the removal lastRemoval stands for
Touched(plan) ==
    IF lastRemoval.plan = plan THEN [lastRemoval EXCEPT !.clean = FALSE] ELSE lastRemoval

\* the user picks a topic: the effect on selectedTopicId starts a load (67-94)
DetailSelectTopic(t) ==
    /\ nDetailEvents < MaxDetailEvents
    /\ selectedTopicId # Some(t)
    /\ nDetailEvents' = nDetailEvents + 1
    /\ selectedTopicId' = Some(t)
    /\ loading' = TRUE
    /\ paneError' = None
    /\ loads' = loads \cup {[id |-> nDetailEvents + 1, topic |-> t]}
    /\ UNCHANGED <<lessonPlan, generating, gens, nPaneEvents>>
    /\ UNCHANGED <<shownResources, toastVisible, deletedResource, deletingResourceIndex,
                   edits, lastRemoval>>
    /\ UNCHANGED <<engineVars, chatVars, storeVars, mainVars, serviceVars, agentVars>>

\* getAllLessonPlans of a load settled (77-90)
DetailLoadDone(l, ok) ==
    /\ loads' = loads \ {l}
    /\ loading' = FALSE
    /\ IF ok
       THEN /\ lessonPlan' = findPlan(lessonPlans, l.topic)
            /\ shownResources' =
                  IF lessonPlan' = None THEN <<>> ELSE lessonPlans[lessonPlan'[1]].resources
            /\ UNCHANGED paneError
       ELSE /\ paneError' = Some("Failed to load lesson plan")
            /\ UNCHANGED <<lessonPlan, shownResources>>
    /\ UNCHANGED <<selectedTopicId, generating, gens, nPaneEvents>>
    /\ UNCHANGED <<toastVisible, deletedResource, deletingResourceIndex, edits,
                   lastRemoval, nDetailEvents>>
    /\ UNCHANGED <<engineVars, chatVars, storeVars, mainVars, serviceVars, agentVars>>

\* the delete button of the resource at index (0-based) is clicked:
\* handleDeleteResource up to the await of getLessonPlan (146-156)
ClickDelete(index) ==
    /\ nDetailEvents < MaxDetailEvents
    /\ planShown
    /\ index < Len(shownResources)
    /\ deletingResourceIndex # Some(index)
    /\ nDetailEvents' = nDetailEvents + 1
    /\ deletingResourceIndex' = Some(index)
    /\ edits' = edits \cup
          {[id |-> nDetailEvents + 1, kind |-> "delete", pc |-> "get",
            plan |-> lessonPlan[1], index |-> index,
            resource |-> shownResources[index + 1], doc |-> None, removal |-> 0]}
    /\ UNCHANGED <<shownResources, toastVisible, deletedResource, lastRemoval>>
    /\ UNCHANGED <<engineVars, chatVars, storeVars, mainVars, paneVars, serviceVars, agentVars>>

\* getLessonPlan of a removal settled (156-172)
DeleteGetDone(e, ok) ==
    /\ e.kind = "delete" /\ e.pc = "get"
    /\ LET latest == getLessonPlan(lessonPlans, e.plan)
       IN  IF ok /\ latest # None
           THEN /\ edits' = (edits \ {e}) \cup
                      {[e EXCEPT !.pc = "put",
                                 !.doc = Some([latest[1] EXCEPT
                                     !.resources = RemoveAt(latest[1].resources, e.index)])]}
                /\ UNCHANGED <<paneError, deletingResourceIndex>>
           ELSE /\ edits' = edits \ {e}
                /\ paneError' = Some("Failed to delete resource")
                /\ deletingResourceIndex' = None
    /\ UNCHANGED <<selectedTopicId, lessonPlan, loading, generating, loads, gens, nPaneEvents>>
    /\ UNCHANGED <<shownResources, toastVisible, deletedResource, lastRemoval, nDetailEvents>>
    /\ UNCHANGED <<engineVars, chatVars, storeVars, mainVars, serviceVars, agentVars>>

\* updateLessonPlan of a removal settled (172-191)
DeletePutDone(e, ok) ==
    /\ e.kind = "delete" /\ e.pc = "put"
    /\ edits' = edits \ {e}
    /\ deletingResourceIndex' = None
    /\ IF ok /\ canUpdate(lessonPlans, e.doc[1])
       THEN /\ lessonPlans' = updateLessonPlan(lessonPlans, e.doc[1])
            /\ deletedResource' =
                  Some([resource |-> e.resource, index |-> e.index, lessonPlanId |-> e.plan])
            /\ lessonPlan' = Some(e.plan)
            /\ shownResources' = e.doc[1].resources
            /\ toastVisible' = TRUE
            /\ lastRemoval' = [n |-> e.id, plan |-> e.plan,
                               before |-> lessonPlans[e.plan].resources, clean |-> TRUE]
            /\ UNCHANGED paneError
       ELSE /\ paneError' = Some("Failed to delete resource")
            /\ UNCHANGED <<lessonPlans, deletedResource, lessonPlan, shownResources,
                           toastVisible, lastRemoval>>
    /\ UNCHANGED <<selectedTopicId, loading, generating, loads, gens, nPaneEvents>>
    /\ UNCHANGED <<learningRequests, createdPlans, clock, nDetailEvents>>
    /\ UNCHANGED <<engineVars, chatVars, mainVars, serviceVars, agentVars>>

\* Undo is clicked on the toast: handleUndoDelete up to getLessonPlan (194-199)
ClickUndo ==
    /\ nDetailEvents < MaxDetailEvents
    /\ planShown /\ toastVisible
    /\ deletedResource # None
    /\ nDetailEvents' = nDetailEvents + 1
    /\ edits' = edits \cup
          {[id |-> nDetailEvents + 1, kind |-> "undo", pc |-> "get",
            plan |-> lessonPlan[1], index |-> deletedResource[1].index,
            resource |-> deletedResource[1].resource, doc |-> None,
            removal |-> lastRemoval.n]}
    /\ UNCHANGED <<shownResources, toastVisible, deletedResource, deletingResourceIndex,
                   lastRemoval>>
    /\ UNCHANGED <<engineVars, chatVars, storeVars, mainVars, paneVars, serviceVars, agentVars>>

\* getLessonPlan of an undo settled (199-214)
UndoGetDone(e, ok) ==
    /\ e.kind = "undo" /\ e.pc = "get"
    /\ LET latest == getLessonPlan(lessonPlans, e.plan)
       IN  IF ok /\ latest # None
           THEN /\ edits' = (edits \ {e}) \cup
                      {[e EXCEPT !.pc = "put",
                                 !.doc = Some([latest[1] EXCEPT
                                     !.resources =
                                         InsertAt(latest[1].resources, e.index, e.resource)])]}
                /\ UNCHANGED paneError
           ELSE /\ edits' = edits \ {e}
                /\ paneError' = Some("Failed to undo delete")
    /\ UNCHANGED <<selectedTopicId, lessonPlan, loading, generating, loads, gens, nPaneEvents>>
    /\ UNCHANGED <<shownResources, toastVisible, deletedResource, deletingResourceIndex,
                   lastRemoval, nDetailEvents>>
    /\ UNCHANGED <<engineVars, chatVars, storeVars, mainVars, serviceVars, agentVars>>

\* updateLessonPlan of an undo settled (214-225)
UndoPutDone(e, ok) ==
    /\ e.kind = "undo" /\ e.pc = "put"
    /\ edits' = edits \ {e}
    /\ IF ok /\ canUpdate(lessonPlans, e.doc[1])
       THEN /\ lessonPlans' = updateLessonPlan(lessonPlans, e.doc[1])
            /\ lessonPlan' = Some(e.plan)
            /\ shownResources' = e.doc[1].resources
            /\ deletedResource' = None
            /\ toastVisible' = FALSE
            /\ lastRemoval' = Touched(e.plan)
            /\ UNCHANGED paneError
       ELSE /\ paneError' = Some("Failed to undo delete")
            /\ UNCHANGED <<lessonPlans, lessonPlan, shownResources, deletedResource,
                           toastVisible, lastRemoval>>
    /\ UNCHANGED <<selectedTopicId, loading, generating, loads, gens, nPaneEvents>>
    /\ UNCHANGED <<learningRequests, createdPlans, clock>>
    /\ UNCHANGED <<deletingResourceIndex, nDetailEvents>>
    /\ UNCHANGED <<engineVars, chatVars, mainVars, serviceVars, agentVars>>

\* the toast's timer fires or its close button is clicked (228-231)
CloseToast ==
    /\ planShown /\ toastVisible
    /\ toastVisible' = FALSE
    /\ deletedResource' = None
    /\ UNCHANGED <<shownResources, deletingResourceIndex, edits, lastRemoval, nDetailEvents>>
    /\ UNCHANGED <<engineVars, chatVars, storeVars, mainVars, paneVars, serviceVars, agentVars>>

DetailInit ==
    /\ shownResources = <<>>
    /\ toastVisible = FALSE
    /\ deletedResource = None
    /\ deletingResourceIndex = None
    /\ edits = {}
    /\ lastRemoval = NoRemoval
    /\ nDetailEvents = 0

PaneInit ==
    /\ selectedTopicId = None
    /\ lessonPlan = None
    /\ loading = FALSE
    /\ generating = FALSE
    /\ paneError = None
    /\ loads = {}
    /\ gens = {}
    /\ nPaneEvents = 0

StoreInit ==
    /\ learningRequests = [r \in Reqs |-> NewRequest(r)]
    /\ lessonPlans = <<>>
    /\ createdPlans = {}
    /\ clock = 1

MainInit ==
    /\ runs = {}
    /\ lastRun = NoRun
    /\ dels = {}
    /\ lastDel = NoDel
    /\ nRuns = 0
    /\ nDels = 0

EngineInit ==
    /\ conversationStates = <<>>
    /\ solo = [i \in SessionIds |-> <<>>]
    /\ apiKey \in {None, Some("k1")}
    /\ envKey \in {None, Some("k1")}
    /\ inflight = {}
    /\ lastTurn = NoTurn
    /\ nTurns = 0

ChatInit ==
    /\ isTyping = FALSE
    /\ nMessages = 1

\* everything outside the subsystem a specification is about is at rest
RestInit == ServiceInit /\ retryAttempts = 3 /\ AgentInit /\ DetailInit

Init == EngineInit /\ ChatInit /\ StoreInit /\ MainInit /\ PaneInit /\ RestInit

Next ==
    \/ \E m \in Messages : Send(m)
    \/ \E t \in inflight, c \in Contents : LLMReturn(t, c)
    \/ \E t \in inflight : LLMThrow(t)

Spec == Init /\ [][Next]_vars

NextSessions ==
    \/ \E i \in SessionIds, m \in Messages : SendSession(i, m)
    \/ \E t \in inflight, c \in Contents : LLMReturn(t, c)
    \/ \E t \in inflight : LLMThrow(t)

SpecSessions == Init /\ [][NextSessions]_vars

\* what the main process may answer to getOpenAIKey
EnvKeys == {None} \cup {Some(k) : k \in Keys}

\* One session, one turn at a time, while the key of the main process changes.
NextKeys ==
    \/ \E m \in Messages : Send(m)
    \/ \E t \in inflight, c \in Contents : LLMReturn(t, c)
    \/ \E t \in inflight : LLMThrow(t)
    \/ \E k \in EnvKeys : SetEnvKey(k)

\* a renderer that has fetched no key yet, a main process that has one
InitKeys == Init /\ apiKey = None /\ envKey = Some("k1")
SpecKeys == InitKeys /\ [][NextKeys]_vars

NextChat ==
    \/ \E d \in Drafts, c \in BOOLEAN : ChatSend(d, c)
    \/ \E t \in inflight, c \in Contents : ChatLLMReturn(t, c)
    \/ \E t \in inflight : ChatLLMThrow(t)

SpecChat == Init /\ [][NextChat]_vars

CurationOutcomes ==
    {[ok |-> TRUE, content |-> c] : c \in CurationContents}
        \cup {[ok |-> FALSE, content |-> <<>>]}

NextMain ==
    \/ \E r \in Reqs : RunStart(r)
    \/ RunWithoutRequest
    \/ \E run \in runs, out \in SearchOutcomes : SearchDone(run, out)
    \/ \E run \in runs, out \in CurationOutcomes : CurateDone(run, out)
    \/ \E run \in runs, ok \in BOOLEAN : CreateDone(run, ok)
    \/ \E run \in runs, ok \in BOOLEAN : UpdateDone(run, ok)
    \/ \E r \in Reqs, ok \in BOOLEAN : DeleteStart(r, ok)
    \/ \E d \in dels, ok \in BOOLEAN : DeletePlanDone(d, ok)
    \/ \E d \in dels, ok \in BOOLEAN : DeleteRequestDone(d, ok)

\* the main process before any renderer turn: no key looked up or cached
InitMain == Init /\ apiKey = None /\ envKey = None
SpecMain == InitMain /\ [][NextMain]_vars

\* the dashboard with two topics in its sidebar
InitPane ==
    /\ EngineInit /\ ChatInit /\ MainInit /\ PaneInit /\ RestInit
    /\ apiKey = None /\ envKey = None
    /\ learningRequests = [r \in Topics |-> NewRequest(r)]
    /\ lessonPlans = <<>>
    /\ createdPlans = {}
    /\ clock = 1

NextPane ==
    \/ \E t \in Topics : SelectTopic(t)
    \/ \E l \in loads, ok \in BOOLEAN : LoadDone(l, ok)
    \/ ClickGenerate
    \/ \E g \in gens, ok \in BOOLEAN : GenRequestsDone(g, ok)
    \/ \E run \in runs, out \in SearchOutcomes : SearchDone(run, out)
    \/ \E run \in runs, out \in CurationOutcomes : CurateDone(run, out)
    \/ \E run \in runs, ok \in BOOLEAN : CreateDone(run, ok)
    \/ \E run \in runs, ok \in BOOLEAN : UpdateDone(run, ok)
    \/ \E g \in gens : GenPipelineDone(g)
    \/ \E g \in gens, ok \in BOOLEAN : GenReloadDone(g, ok)

SpecPane == InitPane /\ [][NextPane]_vars

\* a service made with new OpenAIService() and setRetryConfig(n, delay)
InitService ==
    /\ EngineInit /\ ChatInit /\ StoreInit /\ MainInit /\ PaneInit /\ ServiceInit
    /\ AgentInit /\ DetailInit
    /\ apiKey = None /\ envKey = None
    /\ retryAttempts \in 1..MaxRetryAttempts

NextService ==
    \/ \E hasKey \in BOOLEAN, valid \in BOOLEAN : ChatCompletion(hasKey, valid)
    \/ \E c \in completions, out \in InvokeOutcomes, hasKey \in BOOLEAN, valid \in BOOLEAN :
           TestDone(c, out, hasKey, valid)
    \/ \E c \in completions, out \in InvokeOutcomes : AttemptDone(c, out)

SpecService == InitService /\ [][NextService]_vars

\* an agent made with a valid config; the key manager as the renderer has it
InitAgent == Init

NextAgent ==
    \/ \E message \in AgentMessages, canHandle \in BOOLEAN : Process(message, canHandle)
    \/ \E p \in processes, how \in InitializeOutcomes : InitializeDone(p, how)
    \/ \E p \in processes, out \in ProcessOutcomes : ProcessInputDone(p, out)

SpecAgent == InitAgent /\ [][NextAgent]_vars

\* a lesson plan as the store holds it after the pipeline made it
StoredPlan(id, r, resources) ==
    [_id |-> id, rev |-> 1, learningRequestId |-> r, resources |-> resources]

\* the dashboard with two topics, each with its lesson plan
InitDetail ==
    /\ EngineInit /\ ChatInit /\ MainInit /\ PaneInit /\ RestInit
    /\ apiKey = None /\ envKey = None
    /\ learningRequests =
          [r \in Topics |->
              updatedLearningRequest(NewRequest(r), IF r = "r1" THEN 1 ELSE 2)]
    /\ lessonPlans = (1 :> StoredPlan(1, "r1", <<ResA, ResB>>))
                        @@ (2 :> StoredPlan(2, "r2", <<ResC>>))
    /\ createdPlans = {1, 2}
    /\ clock = 3

NextDetail ==
    \/ \E t \in Topics : DetailSelectTopic(t)
    \/ \E l \in loads, ok \in BOOLEAN : DetailLoadDone(l, ok)
    \/ \E index \in 0..1 : ClickDelete(index)
    \/ \E e \in edits, ok \in BOOLEAN : DeleteGetDone(e, ok)
    \/ \E e \in edits, ok \in BOOLEAN : DeletePutDone(e, ok)
    \/ ClickUndo
    \/ \E e \in edits, ok \in BOOLEAN : UndoGetDone(e, ok)
    \/ \E e \in edits, ok \in BOOLEAN : UndoPutDone(e, ok)
    \/ CloseToast

SpecDetail == InitDetail /\ [][NextDetail]_vars

\* ================================================================== claims
Settled == lastTurn.outcome # "none"
ModelSteps == {"identifying", "clarifying", "learning_preference"}

\* C5 (as stated): an invocation makes exactly one Language Model call when the
\* session's step at entry is identifying, clarifying or learning_preference,
\* and none when it is initial or confirmed.
C5_AsStated ==
    Settled =>
        /\ lastTurn.entry[1] \in ModelSteps => lastTurn.calls = 1
        /\ lastTurn.entry[1] \in {"initial", "confirmed"} => lastTurn.calls = 0

\* C5 (amended): an invocation that obtained an API key makes exactly one
\* Language Model call when the step at entry is initial, identifying,
\* clarifying or learning_preference, and none when it is confirmed; an
\* invocation that obtained no key makes none.
C5_CallsPerTurn ==
    Settled =>
        /\ (lastTurn.keyed /\ lastTurn.entry[1] \in ModelSteps \cup {"initial"})
              => lastTurn.calls = 1
        /\ (lastTurn.keyed /\ lastTurn.entry[1] = "confirmed") => lastTurn.calls = 0
        /\ ~lastTurn.keyed => lastTurn.calls = 0

C5_Witness ==
    /\ lastTurn.outcome = "resolved"
    /\ lastTurn.entry = Some("initial")
    /\ lastTurn.calls = 1

Captured(st) ==
    <<st.subject_candidate, st.subject, st.category, st.learning_preference,
      st.clarification_context>>
NothingCaptured == <<None, None, None, None, None>>

\* C6 (as stated): a message sent to a confirmed session clears the captured
\* fields and is itself the utterance sent for subject identification.
C6_AsStated ==
    (Settled /\ lastTurn.keyed /\ lastTurn.entry = Some("confirmed")) =>
        /\ Captured(conversationStates[lastTurn.session]) = NothingCaptured
        /\ lastTurn.prompt # None
        /\ lastTurn.prompt[1] = "identifying"
        /\ lastTurn.prompt[2] = lastTurn.message

\* C6 (amended): a message sent to a confirmed session clears the captured
\* fields and moves the session to identifying; that message is not sent to the
\* Language Model (the turn answers with the opening question), and every turn
\* that starts in identifying sends its own message for identification.
C6_ResetOnConfirmed ==
    /\ (Settled /\ lastTurn.keyed /\ lastTurn.entry = Some("confirmed")) =>
          /\ Captured(conversationStates[lastTurn.session]) = NothingCaptured
          /\ conversationStates[lastTurn.session].step = "identifying"
          /\ lastTurn.prompt = None
          /\ lastTurn.response = AskText
    /\ (Settled /\ lastTurn.keyed /\ lastTurn.entry = Some("identifying")) =>
          /\ lastTurn.prompt # None
          /\ lastTurn.prompt[1] = "identifying"
          /\ lastTurn.prompt[2] = lastTurn.message

C6_Witness ==
    /\ lastTurn.outcome = "resolved"
    /\ lastTurn.entry = Some("confirmed")
    /\ lastTurn.before[1].subject # None
    /\ lastTurn.before[1].category # None
    /\ lastTurn.before[1].learning_preference # None

\* C7: a recorded learning_preference is one of basics, getting_started,
\* core_concepts, and a session is confirmed by the preference turn only with
\* such a value.
C7_PreferenceInEnum ==
    \A s \in DOMAIN conversationStates :
        LET p == conversationStates[s].learning_preference
        IN  p # None => p[1] \in Preferences

\* C8: ChatInterface never has two sendAgentMessage turns in flight for the
\* session 'chat-session'.
C8_OneTurnInFlight ==
    Cardinality({t \in inflight : t.session = "chat-session"}) <= 1

\* C9: with each session's turns sequential and the sessions interleaved, the
\* state the engine holds for a session and every response it gives are those
\* of the session running alone.
C9_SessionsIsolated ==
    /\ \A i \in SessionIds :
          StateOf(conversationStates, SessionKey(i)) = StateOf(solo[i], SessionKey(i))
    /\ lastTurn.response = lastTurn.soloResponse

C9_Witness ==
    /\ lastTurn.outcome = "resolved"
    /\ DOMAIN conversationStates = {"default", "chat-session"}
    /\ conversationStates["default"].step = "clarifying"
    /\ conversationStates["chat-session"].step = "learning_preference"

\* ------------------------------------------------------- store and pipeline
PlansOf(plans, r) == {p \in DOMAIN plans : plans[p].learningRequestId = r}
Quiescent == runs = {} /\ dels = {}

\* C1 (as stated): whenever no handler is under way, a stored learning request
\* has status 'completed' if and only if some stored lesson plan has its id
\* as learningRequestId.
C1_CompletedIffPlan ==
    Quiescent =>
        \A r \in DOMAIN learningRequests :
            (learningRequests[r].status = "completed")
                <=> (PlansOf(lessonPlans, r) # {})

\* C2: a stored learning request with status pending or processing has no
\* lessonPlanId; one with status completed names a lesson plan that has been
\* created; and a run waits on updateLearningRequest only once its own
\* createLessonPlan has succeeded.
C2_NoDanglingNoPremature ==
    /\ \A r \in DOMAIN learningRequests :
           LET lr == learningRequests[r]
           IN  /\ lr.status \in {"pending", "processing"} => lr.lessonPlanId = None
               /\ lr.status = "completed" =>
                      /\ lr.lessonPlanId # None
                      /\ lr.lessonPlanId[1] \in createdPlans
    /\ \A run \in runs :
           run.pc = "update" => run.planId # None /\ run.planId[1] \in createdPlans

\* a run has written the request: it is completed and its plan is stored
C2_Witness ==
    /\ lastRun.updated
    /\ \E r \in DOMAIN learningRequests :
           /\ learningRequests[r].status = "completed"
           /\ learningRequests[r].lessonPlanId = lastRun.created
           /\ lastRun.created[1] \in DOMAIN lessonPlans

\* C3 (as stated): what 'invoke-lesson-planner' returns carries a non-empty
\* curated plan or an error string.
C3_PlanOrError ==
    lastRun.result # None =>
        LET res == lastRun.result[1]
        IN  \/ res.lessonPlan # None /\ res.lessonPlan[1] # <<>>
            \/ res.error # None

\* C4 (as stated): when createLessonPlan or updateLearningRequest failed in
\* save_plan, the pipeline invocation rejected.
C4_PersistenceFailureThrows ==
    lastRun.persistFailed => lastRun.pipeline = "rejected"

\* -------------------------------------------------------------- ContentPane
\* C10 (as stated): no two pipeline runs for one learning request are under
\* way at once, and no learning request has two stored lesson plans.
C10_OneRunOnePlan ==
    /\ \A a, b \in runs :
           a.state.learningRequest._id = b.state.learningRequest._id => a = b
    /\ \A r \in Topics : Cardinality(PlansOf(lessonPlans, r)) <= 1

\* ----------------------------------------------------------- pipeline runs
\* C11 (as stated): every stored lesson plan has between 3 and 5 resources.
C11_ThreeToFiveResources ==
    \A p \in DOMAIN lessonPlans : Len(lessonPlans[p].resources) \in 3..5

SearchThrew(run) == run.search # None /\ ~run.search[1].ok

\* C12: a run whose search call threw returns without throwing, with an
\* empty curatedPlan and a non-empty error, having created no lesson plan
\* and written no learning request.
C12_SearchThrowsDegrades ==
    SearchThrew(lastRun) =>
        /\ lastRun.pipeline = "resolved"
        /\ lastRun.result[1].lessonPlan = Some(<<>>)
        /\ lastRun.error # None /\ lastRun.error[1] # ""
        /\ lastRun.created = None
        /\ ~lastRun.updated

\* a run whose search threw has returned, the request it was given is stored
\* as it was, and no lesson plan refers to it
C12_Witness ==
    /\ SearchThrew(lastRun)
    /\ lastRun.request # None
    /\ StateOf(learningRequests, lastRun.request[1]._id) = lastRun.request
    /\ PlansOf(lessonPlans, lastRun.request[1]._id) = {}

LacksField(r) == r.title = "" \/ r.url = "" \/ r.summary = ""

\* the response embeds an array one of whose elements lacks a field
HasInvalidElement(content) ==
    \E i \in 1..Len(content) :
        LET v == Payload(content[i])
        IN  v.kind = "array" /\ \E j \in 1..Len(v.items) : LacksField(v.items[j])

EmptyWithError(update) ==
    /\ update.curatedPlan = <<>>
    /\ "error" \in DOMAIN update
    /\ update.error # None /\ update.error[1] # ""

\* C13: a run whose model response is an array with an element lacking
\* title, url or summary gets curatedPlan = [] and a non-empty error from
\* curate_with_llm, and creates no lesson plan.
C13_InvalidElementRejectsAll ==
    (lastRun.llm # None /\ lastRun.llm[1].ok
        /\ HasInvalidElement(lastRun.llm[1].content)) =>
        /\ EmptyWithError(lastRun.curation[1])
        /\ lastRun.created = None
        /\ ~lastRun.persistFailed

\* such a run has returned: among three elements only the second was invalid
C13_Witness ==
    /\ lastRun.llm = Some([ok |-> TRUE, content |-> <<"PBad">>])
    /\ lastRun.pipeline = "resolved"
    /\ lastRun.created = None

\* C14: a run whose search left searchResults empty gets curatedPlan = []
\* and a non-empty error from curate_with_llm, which makes no model call
\* and does not throw.
C14_NoResultsNoModelCall ==
    (lastRun.search # None /\ call_tavily(lastRun.search[1]).searchResults = <<>>) =>
        /\ lastRun.llm = None
        /\ lastRun.curation # None /\ EmptyWithError(lastRun.curation[1])
        /\ lastRun.pipeline = "resolved"
    /\ \A run \in runs :
           run.pc = "curate" => call_tavily(run.search[1]).searchResults # <<>>

\* a run whose search succeeded with an empty list has returned
C14_Witness ==
    /\ lastRun.search = Some([ok |-> TRUE, results |-> <<>>])
    /\ lastRun.pipeline = "resolved"

\* the run's search gave results and its model response is one JSON array
\* of n >= 1 resources, each with its three fields
GoodRun(run) ==
    /\ run.search # None /\ run.search[1].ok /\ run.search[1].results # <<>>
    /\ run.llm # None /\ run.llm[1].ok /\ Len(run.llm[1].content) = 1
    /\ LET v == Payload(run.llm[1].content[1])
       IN  /\ v.kind = "array" /\ Len(v.items) >= 1
           /\ \A j \in 1..Len(v.items) : ~LacksField(v.items[j])

ReturnedList(run) == Payload(run.llm[1].content[1]).items

\* C15: in such a run, the step in which createLessonPlan succeeds adds
\* exactly one lesson plan, with the returned list in its order and the
\* request's id; the step in which updateLearningRequest succeeds adds none
\* and leaves the request completed with that plan's id as lessonPlanId.
C15_RunPersistsCuratedPlan ==
    [][\A run \in runs :
          LET id == run.state.learningRequest._id
              p == run.planId[1]
          IN  /\ (GoodRun(run) /\ run.pc = "create"
                     /\ [run EXCEPT !.pc = "update"] \in runs') =>
                     /\ p \notin DOMAIN lessonPlans
                     /\ DOMAIN lessonPlans' = DOMAIN lessonPlans \cup {p}
                     /\ lessonPlans'[p].resources = ReturnedList(run)
                     /\ lessonPlans'[p].learningRequestId = id
              /\ (GoodRun(run) /\ run.pc = "update" /\ run \notin runs'
                     /\ lastRun'.id = run.id /\ lastRun'.updated) =>
                     /\ lessonPlans' = lessonPlans
                     /\ p \in createdPlans
                     /\ lastRun'.created = Some(p)
                     /\ learningRequests'[id].status = "completed"
                     /\ learningRequests'[id].lessonPlanId = Some(p)
      ]_vars

\* a run that was answered with three resources has made both writes
C15_Witness ==
    /\ lastRun.updated
    /\ lastRun.llm = Some([ok |-> TRUE, content |-> <<"P3">>])
    /\ \E r \in DOMAIN learningRequests :
           /\ learningRequests[r].status = "completed"
           /\ learningRequests[r].lessonPlanId = lastRun.created
           /\ lastRun.created[1] \in DOMAIN lessonPlans
           /\ lessonPlans[lastRun.created[1]].resources = <<ResA, ResB, ResC>>
           /\ PlansOf(lessonPlans, r) = {lastRun.created[1]}

\* ---------------------------------------------------------------- deletion
\* C16 (as stated): when 'db:deleteLearningRequest' resolves for r, neither
\* the request r nor a lesson plan with learningRequestId = r is stored; when
\* a deleteLessonPlan of the handler fails, the handler rejects and the
\* request stays.
C16_DeleteCascades ==
    [][\A d \in dels :
          /\ (d.todo = <<>> /\ d \notin dels'
                 /\ lastDel' = [req |-> d.req, outcome |-> "resolved"]) =>
                 /\ d.req \notin DOMAIN learningRequests'
                 /\ PlansOf(lessonPlans', d.req) = {}
          /\ (d.todo # <<>> /\ d \notin dels'
                 /\ [d EXCEPT !.todo = Tail(d.todo)] \notin dels') =>
                 /\ lastDel' = [req |-> d.req, outcome |-> "rejected"]
                 /\ learningRequests' = learningRequests
      ]_vars

\* ---------------------------------------------------------- dialogue turns
\* the last turn started in step, its model call returned, it has returned
TurnFrom(step) ==
    /\ lastTurn.outcome = "resolved"
    /\ lastTurn.content # None
    /\ lastTurn.before # None /\ lastTurn.before[1].step = step

\* the session's state as that turn left it (turns are sequential)
Now == conversationStates[lastTurn.session]

NotSpace(x) == x # SP
Bars(line) == {i \in 1..Len(line) : line[i] = BAR}
FirstBar(line) ==
    IF Bars(line) = {} THEN Len(line) + 1
    ELSE CHOOSE i \in Bars(line) : \A j \in Bars(line) : i <= j

\* the words of a tagged line before its first bar, and after it
LineSubject(line) == SelectSeq(SubSeq(line, 2, FirstBar(line) - 1), NotSpace)
LineCategory(line) ==
    LET rest == SubSeq(line, FirstBar(line) + 1, Len(line))
    IN  SelectSeq(SubSeq(rest, 1, FirstBar(rest) - 1), NotSpace)
WellFormed(line, tag) == line # <<>> /\ line[1] = tag /\ LineSubject(line) # <<>>

\* C17 (as stated): a turn that starts in clarifying and whose model call returns ends
\* in learning_preference: with the subject of a well-formed RESOLVED line
\* and its category ('General' when the line names none), or else with the
\* stored ambiguous term as subject and category 'General'.
C17_ClarifyingAlwaysLeaves ==
    TurnFrom("clarifying") =>
        LET line == lastTurn.content[1]
            was == lastTurn.before[1]
        IN  /\ Now.step = "learning_preference"
            /\ IF WellFormed(line, "RESOLVED:")
               THEN /\ Now.subject = Some(LineSubject(line))
                    /\ Now.category =
                          Some(IF LineCategory(line) = <<>> THEN General
                               ELSE LineCategory(line))
               ELSE /\ was.subject_candidate # None
                    /\ Now.subject = was.subject_candidate
                    /\ Now.category = Some(General)

\* C18: a session whose step is clarifying has a non-empty subject_candidate
\* and a non-empty clarification_context.
C18_ClarifyingHasContext ==
    \A session \in DOMAIN conversationStates :
        LET st == conversationStates[session]
        IN  st.step = "clarifying" =>
                /\ st.subject_candidate # None /\ st.subject_candidate[1] # <<>>
                /\ st.clarification_context # None
                /\ st.clarification_context[1] # <<>>

\* a CLARIFY line that names a term and no categories was just handled
C18_Witness ==
    /\ TurnFrom("identifying")
    /\ lastTurn.content = Some(<<"CLARIFY:", SP, "Swift">>)
    /\ Now.step = "clarifying"
    /\ Now.subject_candidate = Some(<<"Swift">>)
    /\ Now.clarification_context = Some(MultipleCategories)

\* C19: a turn in learning_preference whose model response does not start
\* with PREFERENCE: returns the re-prompt as a normal response and leaves the
\* session's state, step and captured fields, as it was.
C19_RepromptKeepsState ==
    (TurnFrom("learning_preference")
        /\ (lastTurn.content[1] = <<>> \/ lastTurn.content[1][1] # "PREFERENCE:")) =>
        /\ Now = lastTurn.before[1]
        /\ Now.step = "learning_preference"
        /\ lastTurn.response = <<"reprompt">>

\* a re-prompted turn that was not the session's first turn in that step
C19_Witness ==
    /\ TurnFrom("learning_preference")
    /\ lastTurn.content = Some(<<"UNCLEAR">>)
    /\ lastTurn.response = <<"reprompt">>
    /\ lastTurn.entry = Some("learning_preference")
    /\ Now.subject = Some(<<"Python">>)
    /\ nTurns >= 3

\* C20 (as stated): a turn in identifying whose model response is neither a
\* well-formed IDENTIFIED line nor a well-formed CLARIFY line returns a normal
\* response and leaves the session in confirmed with no subject, category
\* or learning preference.
C20_UnclearGoesToConfirmed ==
    (TurnFrom("identifying")
        /\ ~WellFormed(lastTurn.content[1], "IDENTIFIED:")
        /\ ~WellFormed(lastTurn.content[1], "CLARIFY:")) =>
        /\ Now.step = "confirmed"
        /\ Now.subject = None
        /\ Now.category = None
        /\ Now.learning_preference = None
        /\ lastTurn.response = <<"unclear">>

\* ------------------------------------------------------------ failing turns
\* the last turn called the model and got no content from it
ModelThrew == Settled /\ lastTurn.prompt # None /\ lastTurn.content = None

\* C21: a turn whose Language Model call throws rejects, having made that one
\* call and no other; it does not return a response text.
C21_ModelFailureRejects ==
    ModelThrew =>
        /\ lastTurn.outcome = "rejected"
        /\ lastTurn.response[1] = "Error"
        /\ lastTurn.calls = 1

\* the model call of a turn in learning_preference threw
C21_Witness ==
    /\ ModelThrew
    /\ lastTurn.outcome = "rejected"
    /\ lastTurn.before[1].step = "learning_preference"

\* C22 (as stated): while the main process holds a key, the key a turn hands
\* to its Language Model client is the key held when the turn starts.
C22_TurnUsesCurrentKey ==
    [][\A t \in inflight' \ inflight : envKey # None => t.prompt[3] = envKey]_vars

\* the response is one payload between a fence (json or bare) and its closing
Fenced(content) ==
    /\ Len(content) >= 3
    /\ Head(content) \in {FenceJson, Fence}
    /\ Cardinality({i \in 1..Len(content) : content[i] = Fence})
          = (IF Head(content) = Fence THEN 2 ELSE 1)
    /\ Cardinality({i \in 2..Len(content) : content[i] \notin {SP, NL, Fence}}) = 1
Inner(content) ==
    content[CHOOSE i \in 2..Len(content) : content[i] \notin {SP, NL, Fence}]

\* C23: a response that wraps a JSON array in a json fence or in a bare
\* fence gives the curatedPlan that the array alone gives.
C23_FenceEquivalence ==
    (lastRun.llm # None /\ lastRun.llm[1].ok /\ Fenced(lastRun.llm[1].content)
        /\ Payload(Inner(lastRun.llm[1].content)).kind = "array") =>
        lastRun.curation[1].curatedPlan =
            curate_with_llm([ok |-> TRUE,
                             content |-> <<Inner(lastRun.llm[1].content)>>]).curatedPlan

\* a run answered with a bare fence around one resource has stored that plan
C23_Witness ==
    /\ lastRun.llm = Some([ok |-> TRUE, content |-> <<Fence, "P1", Fence, NL>>])
    /\ lastRun.curation = Some([curatedPlan |-> <<ResA>>])
    /\ lastRun.created # None
    /\ lastRun.created[1] \in DOMAIN lessonPlans
    /\ lessonPlans[lastRun.created[1]].resources = <<ResA>>

\* ------------------------------------------------- shape of a session's state
\* C26: in learning_preference subject and category are set and non-empty;
\* in confirmed subject, category and learning_preference are all recorded
\* or all absent; in identifying no captured field is set.
C26_StepShapesState ==
    \A session \in DOMAIN conversationStates :
        LET st == conversationStates[session]
        IN  /\ st.step = "learning_preference" =>
                   /\ st.subject # None /\ st.subject[1] # <<>>
                   /\ st.category # None /\ st.category[1] # <<>>
            /\ st.step = "confirmed" =>
                   \/ st.subject # None /\ st.category # None
                         /\ st.learning_preference # None
                   \/ st.subject = None /\ st.category = None
                         /\ st.learning_preference = None
            /\ st.step = "identifying" => Captured(st) = NothingCaptured

\* a session that went through clarifying has been confirmed and then reset
C26_Witness ==
    /\ lastTurn.outcome = "resolved"
    /\ lastTurn.entry = Some("confirmed")
    /\ lastTurn.before[1].subject_candidate = Some(<<"Swift">>)
    /\ lastTurn.before[1].learning_preference = Some(<<"basics">>)
    /\ Now.step = "identifying"

\* C27: a turn whose model call throws leaves the session's captured fields
\* as they were, and its step as it was at entry, identifying standing for
\* initial.
C27_FailedTurnKeepsState ==
    ModelThrew =>
        /\ Captured(Now) = Captured(lastTurn.before[1])
        /\ Now.step = (IF lastTurn.entry = Some("initial") THEN "identifying"
                        ELSE lastTurn.entry[1])
        /\ lastTurn.entry = Some("initial") => Captured(Now) = NothingCaptured

\* the model call of a turn in clarifying threw: the term is still stored
C27_Witness ==
    /\ ModelThrew
    /\ lastTurn.entry = Some("clarifying")
    /\ Now.step = "clarifying"
    /\ Now.subject_candidate = Some(<<"Swift">>)
    /\ Now.clarification_context = Some(<<"PL">>)

\* ------------------------------------------------------ a run's final state
\* C28: when a run returns its final state, an empty curatedPlan comes with
\* a non-empty error, and an empty error comes with a lesson plan created
\* with exactly curatedPlan and the request written as completed.
C28_FinalStateConsistent ==
    [][(lastRun' # lastRun /\ lastRun'.pipeline = "resolved") =>
          LET plan == lastRun'.result[1].lessonPlan[1]
              err == lastRun'.error
              id == lastRun'.request[1]._id
              made == lastRun'.created
          IN  /\ plan = <<>> => err # None /\ err[1] # ""
              /\ err = None =>
                     /\ made # None /\ made[1] \in createdPlans'
                     /\ made[1] \in DOMAIN lessonPlans' =>
                            /\ lessonPlans'[made[1]].resources = plan
                            /\ lessonPlans'[made[1]].learningRequestId = id
                     /\ lastRun'.updated
                     /\ id \in DOMAIN learningRequests'
                     /\ learningRequests'[id].status = "completed"
                     /\ learningRequests'[id].lessonPlanId = made
      ]_vars

\* one run has returned without error and another with an empty plan
C28_Witness ==
    /\ lastRun.id = 2
    /\ lastRun.pipeline = "resolved"
    /\ lastRun.result[1].lessonPlan = Some(<<>>)
    /\ lastRun.error # None
    /\ \E r \in DOMAIN learningRequests : learningRequests[r].status = "completed"

\* C29 (as stated): every stored lesson plan's learningRequestId names a
\* stored learning request, in every state, a deletion and a run for the same
\* request interleaved included.
C29_PlansReferToRequests ==
    \A p \in DOMAIN lessonPlans :
        lessonPlans[p].learningRequestId \in DOMAIN learningRequests

\* ------------------------------------------------------------ OpenAIService
Done == lastCompletion.outcome # "none"
Failed(entry) == ~entry.out.ok
FailedRetryable(entry) == ~entry.out.ok /\ parseError(entry.out.error[1]).retryable

\* the invocations of a log follow the retry rule for n attempts
RetryRule(log, outcome, n) ==
    /\ Len(log) <= n
    /\ \A k \in 2..Len(log) : \A j \in 1..(k - 1) : FailedRetryable(log[j])
    /\ outcome = "resolved" => log # <<>> /\ log[Len(log)].out.ok
    /\ (outcome = "rejected" /\ log # <<>>) =>
           /\ Failed(log[Len(log)])
           /\ ~FailedRetryable(log[Len(log)]) \/ Len(log) = n

C30_UndoRestores ==
    [][\A e \in edits :
          (e.kind = "undo" /\ e.pc = "put" /\ e \notin edits'
              /\ lessonPlans' # lessonPlans
              /\ e.removal = lastRemoval.n /\ lastRemoval.clean) =>
              lessonPlans'[lastRemoval.plan].resources = lastRemoval.before
      ]_vars

====
